---- MODULE Spec2Model ----
(***************************************************************************)
(* Model of build.py, the interactive QCOW2 image builder: the two curses  *)
(* selection loops, the assembly of the script list, and the sequence of   *)
(* external commands main() hands to run_cmd, in dry-run and in real mode. *)
(* Paths, command lines and printed lines are strings built as the code    *)
(* builds them; the filesystem is the set of directories and the set of    *)
(* regular files that exist.                                               *)
(***************************************************************************)
EXTENDS Integers, Sequences, FiniteSets, TLC

VARIABLES
    pc,             \* position of main()
    DRY_RUN,        \* build.py:22
    timestamp,      \* main: timestamp
    selected,       \* tui_single_select: selected (cursor)
    os_tag,         \* main: os_tag
    all_scripts,    \* main: all_scripts
    current,        \* tui_ordered_multi_select: current (cursor)
    chosen,         \* tui_ordered_multi_select: selected (ordered list)
    middle_scripts, \* main: middle_scripts
    scripts,        \* main: scripts
    out,            \* lines printed on stdout, each a literal prefix and a value
    stderr,         \* message written by sys.exit
    exit_code,      \* process exit status, NotExited while main() runs
    issued,         \* history: argument vectors handed to run_cmd, in order
    invoked,        \* command lines handed to os.system, in order
    running,        \* external processes started and not yet terminated
    failed,         \* some external process has exited with a non-zero status
    dirs,           \* filesystem: existing directories
    files,          \* filesystem: existing regular files
    dirs0,          \* directories that existed when the run started
    files0,         \* regular files that existed when the run started
    on,             \* history: options toggled an odd number of times
    on_order,       \* history: options ever toggled on, by most recent toggle-on
    prev            \* history: the previous run of the program, NoRun if none

prog == <<pc, DRY_RUN, timestamp, selected, os_tag, all_scripts, current,
          chosen, middle_scripts, scripts>>
io   == <<out, stderr, exit_code, issued, invoked, running, failed>>
fs   == <<dirs, files>>
hist == <<dirs0, files0, on, on_order, prev>>
vars == <<prog, io, fs, hist>>

(***************************************************************************)
(* Configuration (build.py:10-19)                                          *)
(***************************************************************************)
IMAGE_SIZE == "32G"
CWD == "/work"
DOWNLOAD_DIR == CWD \o "/download"
OUTPUT_DIR == CWD \o "/output"
WORKDIR_BASE == "/dev/shm/build"

\* list(BASE_IMAGE_URLS.keys()): the keys in insertion order
OsTags == <<"debian-13", "ubuntu-2204">>

\* os.path.basename(BASE_IMAGE_URLS[os]): the part after the last slash
BASE_NAME ==
    [t \in {"debian-13", "ubuntu-2204"} |->
        IF t = "debian-13" THEN "debian-13-genericcloud-amd64.qcow2"
                           ELSE "jammy-server-cloudimg-amd64.img"]

BASE_IMAGE_URLS ==
    [t \in {"debian-13", "ubuntu-2204"} |->
        IF t = "debian-13"
        THEN "https://cdimage.debian.org/images/cloud/trixie/latest/" \o BASE_NAME[t]
        ELSE "https://cloud-images.ubuntu.com/jammy/current/" \o BASE_NAME[t]]

\* curses key codes read by getch()
KEY_DOWN == 258
KEY_UP == 259
KEY_SPACE == 32
KEY_LF == 10
KEY_CR == 13
KEY_OTHER == 113

Keys == {KEY_DOWN, KEY_UP, KEY_SPACE, KEY_LF, KEY_CR, KEY_OTHER}

(***************************************************************************)
(* Inputs of a run                                                         *)
(***************************************************************************)
\* values of datetime.now().strftime('%Y%m%d_%H%M%S')
Timestamps == {"20240101_000000", "20240101_000001"}

\* file names that may occur in a script directory
OptionalNames == {"net", "ssh", "users"}
ScriptNames == {"base", "clean"} \cup OptionalNames

\* position of a file name in lexicographic order
NameRank ==
    [n \in ScriptNames |->
        CASE n = "base" -> 1 [] n = "clean" -> 2 [] n = "net" -> 3
          [] n = "ssh" -> 4 [] n = "users" -> 5]

NoValue == "<none>"
NotExited == -1

(***************************************************************************)
(* Pure helpers                                                            *)
(***************************************************************************)
\* sep.join(s)
RECURSIVE join(_, _)
join(sep, s) ==
    IF Len(s) = 0 THEN ""
    ELSE IF Len(s) = 1 THEN s[1]
    ELSE s[1] \o sep \o join(sep, Tail(s))

\* os.path.join(a, b) for a relative b
path_join(a, b) == a \o "/" \o b

\* sorted(S): the names of S in increasing lexicographic order
RECURSIVE sorted(_)
sorted(S) ==
    IF S = {} THEN <<>>
    ELSE LET m == CHOOSE x \in S : \A y \in S : NameRank[x] <= NameRank[y]
         IN <<m>> \o sorted(S \ {m})

\* x in s
In(x, s) == \E i \in 1..Len(s) : s[i] = x

\* Mutant of remove: the option stays in the list.
remove_keeps(s, x) == s

\* list.remove(x): drop the first occurrence of x
RECURSIVE remove(_, _)
remove(s, x) ==
    IF Len(s) = 0 THEN s
    ELSE IF s[1] = x THEN Tail(s)
    ELSE <<s[1]>> \o remove(Tail(s), x)

\* Mutant of toggle: a newly selected option is put at its catalog position.
toggle_catalog_order(sel, opt) ==
    IF In(opt, sel) THEN remove(sel, opt)
    ELSE sorted({sel[i] : i \in 1..Len(sel)} \cup {opt})

\* Mutant of toggle: a newly selected option is put in front of the others.
toggle_prepend(sel, opt) ==
    IF In(opt, sel) THEN remove(sel, opt) ELSE <<opt>> \o sel

\* Mutant of toggle: the option is appended without the membership test.
toggle_always_append(sel, opt) == Append(sel, opt)

\* Mutant of toggle: selecting an option replaces the selection.
toggle_exclusive(sel, opt) ==
    IF In(opt, sel) THEN remove(sel, opt) ELSE <<opt>>

\* the toggle of tui_ordered_multi_select (build.py:82-85)
toggle(sel, opt) ==
    IF In(opt, sel) THEN remove(sel, opt) ELSE Append(sel, opt)

(***************************************************************************)
(* Paths derived in main()                                                 *)
(***************************************************************************)
script_dir(t) == path_join("script", t)
script_path(t, n) == path_join(script_dir(t), n)
base_path(t) == path_join(DOWNLOAD_DIR, BASE_NAME[t])
workdir_of(ts) == path_join(WORKDIR_BASE, ts)
image_path_of(ts) == path_join(workdir_of(ts), ts \o ".img")
compressed_path_of(ts) == path_join(workdir_of(ts), ts \o "-compressed.img")

\* os.path.isfile / os.path.exists
isfile(p) == p \in files
exists(p) == p \in files \/ p \in dirs

\* os.listdir(script_dir) filtered to regular files: names n with script_dir/n a file
listed_files(t) == {n \in ScriptNames : isfile(script_path(t, n))}

(***************************************************************************)
(* Command lines built in main()                                           *)
(***************************************************************************)
\* build.py:125
acquire_cmd(t) == <<"axel", BASE_IMAGE_URLS[t], "-o", base_path(t)>>

\* build.py:134
create_cmd(ts) == <<"qemu-img", "create", "-f", "qcow2", image_path_of(ts), IMAGE_SIZE>>

\* build.py:135
resize_cmd(t, ts) == <<"virt-resize", "--expand", "/dev/sda1", base_path(t), image_path_of(ts)>>

\* build.py:137-138: one --commands-from-file pair per stage, in list order
RECURSIVE commands_from_file(_, _)
commands_from_file(t, ss) ==
    IF Len(ss) = 0 THEN <<>>
    ELSE <<"--commands-from-file", script_path(t, ss[1])>>
         \o commands_from_file(t, Tail(ss))

\* build.py:136-138
customize_cmd(t, ts, ss) ==
    <<"virt-customize", "-a", image_path_of(ts)>> \o commands_from_file(t, ss)

\* build.py:142
compress_cmd(ts) ==
    <<"virt-sparsify", "--compress", "--tmp", "/dev/shm/",
      image_path_of(ts), compressed_path_of(ts)>>

\* Mutant of tag_of: the hyphen is added also when nothing was selected.
tag_of_always_hyphen(t, middle) == t \o "-" \o join("-", middle)

\* build.py:145
tag_of(t, middle) ==
    t \o (IF Len(middle) > 0 THEN "-" \o join("-", middle) ELSE "")

\* build.py:146
final_img(t, middle, ts) == tag_of(t, middle) \o "-" \o ts \o ".img"

\* build.py:147
final_dest(t, middle, ts) == path_join(OUTPUT_DIR, final_img(t, middle, ts))

\* build.py:148
copy_cmd(t, middle, ts) == <<"cp", compressed_path_of(ts), final_dest(t, middle, ts)>>

\* build.py:149
remove_cmd(ts) == <<"rm", "-rf", workdir_of(ts)>>

\* Mutant of stage_list: the closing anchor is forgotten.
stage_list_no_clean(middle) == <<"base">> \o middle

\* build.py:115
stage_list(middle) == <<"base">> \o middle \o <<"clean">>

(***************************************************************************)
(* Filesystem operations                                                   *)
(***************************************************************************)
\* directories os.makedirs creates on the way to p
ancestors(p) ==
    IF \E ts \in Timestamps : p = workdir_of(ts) THEN {WORKDIR_BASE} ELSE {}

\* os.makedirs(p, exist_ok=True) applied to the directory set D
makedirs(D, p) == D \cup ancestors(p) \cup {p}

\* Effect of an external command on the entries of the filesystem: axel
\* leaves the base image, cp the final artifact, rm -rf removes the workspace.  The
\* intermediate images inside the workspace are not part of the model.
effect_dirs(cmd) ==
    IF cmd[1] = "rm" THEN dirs \ {cmd[3]} ELSE dirs

effect_files(cmd) ==
    CASE cmd[1] = "axel"        -> files \cup {cmd[4]}
      [] cmd[1] = "cp"            -> files \cup {cmd[3]}
      [] OTHER                    -> files

(***************************************************************************)
(* run_cmd (build.py:24-29)                                                *)
(***************************************************************************)
line(prefix, text) == [prefix |-> prefix, text |-> text]

\* Mutant of returned: the command is started without waiting for it.
returned_no_wait == TRUE

\* os.system has returned: the process it started has terminated
returned == running = {}

\* Mutant of run_cmd: the else is missing, a dry run falls through to os.system.
run_cmd_fallthrough(cmd) ==
    /\ issued' = Append(issued, cmd)
    /\ out' = IF DRY_RUN
              THEN out \o <<line("[Dry Run] $ ", join(" ", cmd)), line("$ ", join(" ", cmd))>>
              ELSE Append(out, line("$ ", join(" ", cmd)))
    /\ invoked' = Append(invoked, join(" ", cmd))
    /\ running' = running \cup {cmd}

\* Mutant of run_cmd: os.system gets the words joined without the blank.
run_cmd_unspaced(cmd) ==
    /\ issued' = Append(issued, cmd)
    /\ IF DRY_RUN
       THEN /\ out' = Append(out, line("[Dry Run] $ ", join(" ", cmd)))
            /\ UNCHANGED <<invoked, running>>
       ELSE /\ out' = Append(out, line("$ ", join(" ", cmd)))
            /\ invoked' = Append(invoked, join("", cmd))
            /\ running' = running \cup {cmd}

run_cmd(cmd) ==
    /\ issued' = Append(issued, cmd)
    /\ IF DRY_RUN
       THEN /\ out' = Append(out, line("[Dry Run] $ ", join(" ", cmd)))
            /\ UNCHANGED <<invoked, running>>
       ELSE /\ out' = Append(out, line("$ ", join(" ", cmd)))
            /\ invoked' = Append(invoked, join(" ", cmd))
            /\ running' = running \cup {cmd}

\* Mutant of ProcExit: a non-zero status ends the run with status 1.
ProcExit_abort ==
    /\ running # {}
    /\ \E cmd \in running, status \in {0, 1} :
        /\ running' = running \ {cmd}
        /\ failed' = (failed \/ status # 0)
        /\ \E acted \in (IF status = 0 THEN {TRUE} ELSE BOOLEAN) :
            IF acted
            THEN dirs' = effect_dirs(cmd) /\ files' = effect_files(cmd)
            ELSE UNCHANGED fs
        /\ IF status = 0
           THEN UNCHANGED <<pc, exit_code>>
           ELSE pc' = "exited" /\ exit_code' = 1
    /\ UNCHANGED <<DRY_RUN, timestamp, selected, os_tag, all_scripts, current,
                   chosen, middle_scripts, scripts, out, stderr, issued,
                   invoked, hist>>

\* The external process started by os.system terminates with some status.
\* A process that fails has left its entry (a partial download, a copy cut
\* short on a full disk) or has left nothing.
ProcExit ==
    /\ running # {}
    /\ \E cmd \in running, status \in {0, 1} :
        /\ running' = running \ {cmd}
        /\ failed' = (failed \/ status # 0)
        /\ \E acted \in (IF status = 0 THEN {TRUE} ELSE BOOLEAN) :
            IF acted
            THEN dirs' = effect_dirs(cmd) /\ files' = effect_files(cmd)
            ELSE UNCHANGED fs
    /\ UNCHANGED <<prog, out, stderr, exit_code, issued, invoked, hist>>

(***************************************************************************)
(* Initial states                                                          *)
(***************************************************************************)
NoRun == [run |-> FALSE]

\* the script files of directory script/t when it holds the names S
script_files(t, S) == {script_path(t, n) : n \in S}

AllDirs ==
    {DOWNLOAD_DIR, OUTPUT_DIR, WORKDIR_BASE} \cup {workdir_of(ts) : ts \in Timestamps}

\* Directory sets a run may start from: any of the shared directories and of
\* the workspaces left behind by earlier runs.
StartDirs ==
    {D \in SUBSET AllDirs :
        (\E ts \in Timestamps : workdir_of(ts) \in D) => WORKDIR_BASE \in D}

\* Cached base images that may lie in the download directory.
StartImages(D) ==
    IF DOWNLOAD_DIR \in D
    THEN SUBSET {base_path(t) : t \in {"debian-13", "ubuntu-2204"}}
    ELSE {{}}

\* Script directories: one OS tag has a script directory, holding any subset
\* of base, clean, net and users.
StartScripts ==
    UNION {{script_files(t, S) : S \in SUBSET (ScriptNames \ {"ssh"})}
           : t \in {"debian-13", "ubuntu-2204"}}

\* the state in which the program starts on the filesystem (D, F)
Start(D, F) ==
    /\ pc = "main"
    /\ DRY_RUN \in BOOLEAN
    /\ timestamp = NoValue
    /\ selected = 0
    /\ os_tag = NoValue
    /\ all_scripts = <<>>
    /\ current = 0
    /\ chosen = <<>>
    /\ middle_scripts = <<>>
    /\ scripts = <<>>
    /\ out = <<>>
    /\ stderr = ""
    /\ exit_code = NotExited
    /\ issued = <<>>
    /\ invoked = <<>>
    /\ running = {}
    /\ failed = FALSE
    /\ dirs = D
    /\ files = F
    /\ dirs0 = D
    /\ files0 = F
    /\ on = {}
    /\ on_order = <<>>
    /\ prev = NoRun

Init ==
    \E D \in StartDirs : \E Sc \in StartScripts : \E Bi \in StartImages(D) :
        Start(D, Sc \cup Bi)

\* The selection loops on the full catalog: both script directories hold
\* base, clean and the three optional scripts.
InitSelect ==
    \E D \in {{}, AllDirs} :
        Start(D, script_files("debian-13", ScriptNames)
                 \cup script_files("ubuntu-2204", ScriptNames))

\* Runs that are compared with each other: debian-13 has two optional
\* scripts, ubuntu-2204 none; nothing or everything is left from earlier runs.
InitPair ==
    \E D \in {{}, AllDirs} :
    \E Bi \in (IF DOWNLOAD_DIR \in D THEN {{}, {base_path("debian-13")}} ELSE {{}}) :
        Start(D, script_files("debian-13", ScriptNames \ {"ssh"})
                 \cup script_files("ubuntu-2204", {"base", "clean"})
                 \cup Bi)

(***************************************************************************)
(* main() up to the selection loops                                        *)
(***************************************************************************)
\* build.py:92 and the entry of tui_single_select (build.py:32)
MainStart ==
    /\ pc = "main"
    /\ \E ts \in Timestamps : timestamp' = ts
    /\ selected' = 0
    /\ pc' = "tui_single_select"
    /\ UNCHANGED <<DRY_RUN, os_tag, all_scripts, current, chosen,
                   middle_scripts, scripts, io, fs, hist>>

\* Mutant of move: the cursor wraps around at both ends.
move_wrap(cursor, key, n) ==
    IF key = KEY_UP THEN (cursor + n - 1) % n
    ELSE IF key = KEY_DOWN THEN (cursor + 1) % n
    ELSE cursor

\* cursor after key in a list of n options (build.py:44-47, 76-79)
move(cursor, key, n) ==
    IF key = KEY_UP /\ cursor > 0 THEN cursor - 1
    ELSE IF key = KEY_DOWN /\ cursor < n - 1 THEN cursor + 1
    ELSE cursor

\* the keys that reach a branch after the two cursor branches
past_move(cursor, key, n) ==
    /\ ~(key = KEY_UP /\ cursor > 0)
    /\ ~(key = KEY_DOWN /\ cursor < n - 1)

\* Mutant of SingleSelectKey: any key that is no cursor key ends the loop.
SingleSelectKey_escape(key) ==
    /\ pc = "tui_single_select"
    /\ IF past_move(selected, key, Len(OsTags)) /\ key \notin {KEY_UP, KEY_DOWN}
       THEN /\ os_tag' = OsTags[selected + 1]
            /\ pc' = "validate"
            /\ UNCHANGED selected
       ELSE /\ selected' = move(selected, key, Len(OsTags))
            /\ UNCHANGED <<os_tag, pc>>
    /\ UNCHANGED <<DRY_RUN, timestamp, all_scripts, current, chosen,
                   middle_scripts, scripts, io, fs, hist>>

\* one iteration of the loop of tui_single_select (build.py:43-51, 95)
SingleSelectKey(key) ==
    /\ pc = "tui_single_select"
    /\ IF past_move(selected, key, Len(OsTags)) /\ key \in {KEY_LF, KEY_CR}
       THEN /\ os_tag' = OsTags[selected + 1]
            /\ pc' = "validate"
            /\ UNCHANGED selected
       ELSE /\ selected' = move(selected, key, Len(OsTags))
            /\ UNCHANGED <<os_tag, pc>>
    /\ UNCHANGED <<DRY_RUN, timestamp, all_scripts, current, chosen,
                   middle_scripts, scripts, io, fs, hist>>

\* build.py:110-113
optional_scripts(t) == sorted(listed_files(t) \ {"base", "clean"})

\* Mutant of sys_exit: the message is written and the status is 0.
sys_exit_zero(message) ==
    /\ stderr' = message
    /\ exit_code' = 0
    /\ pc' = "exited"

\* sys.exit(message)
sys_exit(message) ==
    /\ stderr' = message
    /\ exit_code' = 1
    /\ pc' = "exited"

\* build.py:96-115: anchor validation, the catalog, and the entry of the
\* ordered multi-select or, with no optional script, the assembly of scripts
Validate ==
    /\ pc = "validate"
    /\ IF ~isfile(script_path(os_tag, "base"))
       THEN /\ sys_exit("Missing script: " \o script_path(os_tag, "base"))
            /\ UNCHANGED <<all_scripts, current, chosen, middle_scripts, scripts>>
       ELSE IF ~isfile(script_path(os_tag, "clean"))
       THEN /\ sys_exit("Missing script: " \o script_path(os_tag, "clean"))
            /\ UNCHANGED <<all_scripts, current, chosen, middle_scripts, scripts>>
       ELSE /\ all_scripts' = optional_scripts(os_tag)
            /\ UNCHANGED <<stderr, exit_code>>
            /\ IF Len(optional_scripts(os_tag)) > 0
               THEN /\ chosen' = <<>>
                    /\ current' = 0
                    /\ pc' = "tui_ordered_multi_select"
                    /\ UNCHANGED <<middle_scripts, scripts>>
               ELSE /\ middle_scripts' = <<>>
                    /\ scripts' = stage_list(<<>>)
                    /\ pc' = "makedirs"
                    /\ UNCHANGED <<chosen, current>>
    /\ UNCHANGED <<DRY_RUN, timestamp, selected, os_tag, out, issued, invoked,
                   running, failed, fs, hist>>

\* one iteration of the loop of tui_ordered_multi_select (build.py:75-89),
\* and on Enter the assembly of scripts (build.py:114-115)
MultiSelectKey(key) ==
    /\ pc = "tui_ordered_multi_select"
    /\ LET n == Len(all_scripts)
           opt == all_scripts[current + 1]
       IN IF ~past_move(current, key, n)
          THEN /\ current' = move(current, key, n)
               /\ UNCHANGED <<chosen, middle_scripts, scripts, pc, on, on_order>>
          ELSE IF key = KEY_SPACE
          THEN /\ chosen' = toggle(chosen, opt)
               /\ on' = IF opt \in on THEN on \ {opt} ELSE on \cup {opt}
               /\ on_order' = IF opt \in on THEN on_order
                              ELSE Append(SelectSeq(on_order, LAMBDA x : x # opt), opt)
               /\ UNCHANGED <<current, middle_scripts, scripts, pc>>
          ELSE IF key \in {KEY_LF, KEY_CR}
          THEN /\ middle_scripts' = chosen
               /\ scripts' = stage_list(chosen)
               /\ pc' = "makedirs"
               /\ UNCHANGED <<current, chosen, on, on_order>>
          ELSE UNCHANGED <<current, chosen, middle_scripts, scripts, pc, on, on_order>>
    /\ UNCHANGED <<DRY_RUN, timestamp, selected, os_tag, all_scripts, io, fs,
                   dirs0, files0, prev>>

(***************************************************************************)
(* main() from the directories to the end                                  *)
(***************************************************************************)
\* the variables a statement of the command phase leaves alone besides pc,
\* the filesystem and what run_cmd writes
kept == <<DRY_RUN, timestamp, selected, os_tag, all_scripts, current, chosen,
          middle_scripts, scripts, stderr, failed, hist>>

\* Mutant of PrepareDirs: the workspace is keyed by the whole build identity.
PrepareDirs_identity ==
    /\ pc = "makedirs"
    /\ dirs' = makedirs(makedirs(makedirs(dirs, DOWNLOAD_DIR), OUTPUT_DIR),
                        path_join(WORKDIR_BASE,
                                  tag_of(os_tag, middle_scripts) \o "-" \o timestamp))
    /\ pc' = "download"
    /\ UNCHANGED <<kept, files, out, exit_code, issued, invoked, running>>

\* build.py:118-121
PrepareDirs ==
    /\ pc = "makedirs"
    /\ dirs' = makedirs(makedirs(makedirs(dirs, DOWNLOAD_DIR), OUTPUT_DIR),
                        workdir_of(timestamp))
    /\ pc' = "download"
    /\ UNCHANGED <<kept, files, out, exit_code, issued, invoked, running>>

\* Mutant of Download: the cache is not consulted.
Download_unconditional ==
    /\ pc = "download"
    /\ run_cmd(acquire_cmd(os_tag))
    /\ pc' = "create"
    /\ UNCHANGED <<kept, fs, exit_code>>

\* build.py:124-127
Download ==
    /\ pc = "download"
    /\ IF ~exists(base_path(os_tag))
       THEN run_cmd(acquire_cmd(os_tag))
       ELSE /\ out' = Append(out, line("Using existing image: ", base_path(os_tag)))
            /\ UNCHANGED <<issued, invoked, running>>
    /\ pc' = "create"
    /\ UNCHANGED <<kept, fs, exit_code>>

\* a statement of main() that is one run_cmd call, reached once the previous
\* os.system call has returned
Step(at, cmd, next) ==
    /\ pc = at
    /\ returned
    /\ run_cmd(cmd)
    /\ pc' = next
    /\ UNCHANGED <<kept, fs, exit_code>>

\* build.py:134
Create == Step("create", create_cmd(timestamp), "resize")

\* build.py:135
Resize == Step("resize", resize_cmd(os_tag, timestamp), "customize")

\* build.py:136-139
Customize == Step("customize", customize_cmd(os_tag, timestamp, scripts), "compress")

\* build.py:142
Compress == Step("compress", compress_cmd(timestamp), "copy")

\* build.py:145-148
Copy == Step("copy", copy_cmd(os_tag, middle_scripts, timestamp), "remove")

\* build.py:149
Remove == Step("remove", remove_cmd(timestamp), "finish")

\* build.py:150 and the return of main()
Finish ==
    /\ pc = "finish"
    /\ returned
    /\ out' = Append(out, line("\nFinal image ready at: ",
                               final_dest(os_tag, middle_scripts, timestamp)))
    /\ exit_code' = 0
    /\ pc' = "done"
    /\ UNCHANGED <<kept, fs, issued, invoked, running>>

Next ==
    \/ MainStart
    \/ \E key \in Keys : SingleSelectKey(key)
    \/ Validate
    \/ \E key \in Keys : MultiSelectKey(key)
    \/ PrepareDirs
    \/ Download
    \/ Create
    \/ Resize
    \/ Customize
    \/ Compress
    \/ Copy
    \/ Remove
    \/ Finish
    \/ ProcExit

Spec == Init /\ [][Next]_vars

SpecSelect == InitSelect /\ [][Next]_vars

(***************************************************************************)
(* Progress                                                                *)
(***************************************************************************)
\* the statements of main() outside the selection loops
MainStep ==
    \/ MainStart \/ Validate \/ PrepareDirs \/ Download \/ Create \/ Resize
    \/ Customize \/ Compress \/ Copy \/ Remove \/ Finish

\* main() runs on when it can; in each selection loop the user eventually
\* presses Enter; every external process eventually terminates.
Fairness ==
    /\ WF_vars(MainStep)
    /\ WF_vars(\E key \in {KEY_LF, KEY_CR} : SingleSelectKey(key))
    /\ WF_vars(\E key \in {KEY_LF, KEY_CR} : MultiSelectKey(key))
    /\ WF_vars(ProcExit)

\* Runs under these assumptions, from an empty or a fully populated set of
\* directories.
InitLive ==
    \E D \in {{}, AllDirs} : \E Sc \in StartScripts : \E Bi \in StartImages(D) :
        Start(D, Sc \cup Bi)

SpecLive == InitLive /\ [][Next]_vars /\ Fairness

(***************************************************************************)
(* A second start of the program                                           *)
(***************************************************************************)
\* the commands run_cmd has reported on stdout, in order
RECURSIVE reported_in(_)
reported_in(o) ==
    IF Len(o) = 0 THEN <<>>
    ELSE IF o[1].prefix \in {"[Dry Run] $ ", "$ "}
         THEN <<o[1].text>> \o reported_in(Tail(o))
         ELSE reported_in(Tail(o))

reported == reported_in(out)

\* what is kept of a run that has ended
summary ==
    [run |-> TRUE, DRY_RUN |-> DRY_RUN, exit_code |-> exit_code,
     os_tag |-> os_tag, middle_scripts |-> middle_scripts,
     timestamp |-> timestamp, reported |-> reported, invoked |-> invoked,
     dirs0 |-> dirs0, files0 |-> files0]

\* build.py:152-153, 22: the program is started again, in either mode, on
\* the filesystem the run that has just ended has left or, when that has been
\* put back in between, on the filesystem that run started from.  Two runs
\* are followed: the run that has ended and the run started after it.
Rerun ==
    /\ pc \in {"done", "exited"}
    /\ ~prev.run
    /\ prev' = summary
    /\ pc' = "main"
    /\ DRY_RUN' \in BOOLEAN
    /\ timestamp' = NoValue
    /\ selected' = 0
    /\ os_tag' = NoValue
    /\ all_scripts' = <<>>
    /\ current' = 0
    /\ chosen' = <<>>
    /\ middle_scripts' = <<>>
    /\ scripts' = <<>>
    /\ out' = <<>>
    /\ stderr' = ""
    /\ exit_code' = NotExited
    /\ issued' = <<>>
    /\ invoked' = <<>>
    /\ running' = {}
    /\ failed' = FALSE
    /\ \E keep \in BOOLEAN :
        /\ dirs' = (IF keep THEN dirs ELSE dirs0)
        /\ files' = (IF keep THEN files ELSE files0)
    /\ dirs0' = dirs'
    /\ files0' = files'
    /\ on' = {}
    /\ on_order' = <<>>

NextPair == Next \/ Rerun

SpecPair == InitPair /\ [][NextPair]_vars

(***************************************************************************)
(* Vocabulary of the properties                                            *)
(***************************************************************************)
\* the script files a customize command line carries, in order
stage_args(argv) == [k \in 1..((Len(argv) - 3) \div 2) |-> argv[3 + 2 * k]]

\* the positions of the customize commands among the issued commands
customize_at == {i \in 1..Len(issued) : issued[i][1] = "virt-customize"}

\* a sequence without its first and last element
interior(s) == SubSeq(s, 2, Len(s) - 1)

\* the names of a sequence of script names as files of the selected directory
as_paths(names) == [k \in 1..Len(names) |-> script_path(os_tag, names[k])]

\* the options that are chosen, by their most recent toggle-on event
by_last_toggle_on == SelectSeq(on_order, LAMBDA x : x \in on)

\* the first words of the issued commands
programs == [i \in 1..Len(issued) |-> issued[i][1]]

IsPrefix(s, t) == Len(s) <= Len(t) /\ s = SubSeq(t, 1, Len(s))

\* main() is past the assembly of scripts (build.py:115)
Assembled ==
    pc \in {"makedirs", "download", "create", "resize", "customize", "compress",
            "copy", "remove", "finish", "done"}

\* main() is past the cache lookup (build.py:124-127)
PastDownload ==
    pc \in {"create", "resize", "customize", "compress", "copy", "remove",
            "finish", "done"}

\* the anchor scripts that are not regular files of the selected directory
missing_anchors ==
    {p \in {script_path(os_tag, "base"), script_path(os_tag, "clean")} : p \notin files0}

(***************************************************************************)
(* Properties                                                              *)
(***************************************************************************)
\* C1: whatever the OS tag and the keys fed to the ordered multi-select
\* (also when it is skipped), the script list of the run, and the stages of
\* every customize command issued, start with base and end with clean.
C1_AnchorsFirstAndLast ==
    /\ Assembled =>
         /\ Len(scripts) >= 2
         /\ scripts[1] = "base"
         /\ scripts[Len(scripts)] = "clean"
    /\ \A i \in customize_at :
         LET st == stage_args(issued[i])
         IN /\ st = as_paths(scripts)
            /\ st[1] = script_path(os_tag, "base")
            /\ st[Len(st)] = script_path(os_tag, "clean")
            /\ \A k \in 1..Len(st) : issued[i][2 + 2 * k] = "--commands-from-file"

\* C1 witness: a customize command with a selected stage between the anchors
\* has been issued.
C1_Witness ==
    /\ pc = "done"
    /\ \E i \in customize_at : Len(stage_args(issued[i])) = 4
    /\ middle_scripts = <<"users", "net">>

\* C2: the stages strictly between base and clean are the options chosen at
\* confirmation, in the order of their most recent toggle-on, whatever the
\* catalog order.
C2_InteriorInSelectionOrder ==
    /\ Assembled /\ Len(all_scripts) > 0 =>
         interior(scripts) = by_last_toggle_on
    /\ \A i \in customize_at :
         interior(stage_args(issued[i])) = as_paths(by_last_toggle_on)

\* C2 witness: the customize command carries users, net, ssh, selected in
\* this order, against the catalog order net, ssh, users.
C2_Witness ==
    /\ customize_at # {}
    /\ by_last_toggle_on = <<"users", "net", "ssh">>
    /\ all_scripts = <<"net", "ssh", "users">>
    /\ \A i \in customize_at :
         interior(stage_args(issued[i])) = as_paths(<<"users", "net", "ssh">>)

\* C3: in the ordered multi-select, toggling a chosen option off and on again
\* gives the other chosen options in their order, followed by that option.
C3_ReselectAppendsAtEnd ==
    pc = "tui_ordered_multi_select" =>
        \A o \in {chosen[i] : i \in 1..Len(chosen)} :
            LET others == SelectSeq(chosen, LAMBDA x : x # o)
            IN /\ toggle(chosen, o) = others
               /\ toggle(toggle(chosen, o), o) = Append(others, o)

\* C3 witness: net, ssh, users are chosen in this order, and deselecting and
\* reselecting net gives ssh, users, net.
C3_Witness ==
    /\ pc = "tui_ordered_multi_select"
    /\ chosen = <<"net", "ssh", "users">>
    /\ toggle(toggle(chosen, "net"), "net") = <<"ssh", "users", "net">>
    /\ toggle(toggle(chosen, "net"), "net") # chosen

\* C4 (as claimed): at the end of a dry run the directories and files are
\* those that existed when the run started.
C4_DryRunLeavesFilesystem ==
    (DRY_RUN /\ pc = "done") => (dirs = dirs0 /\ files = files0)

\* C5: in a dry run no external command is invoked and none is in progress,
\* while every command handed to run_cmd is reported with the dry-run mark.
C5_DryRunInvokesNothing ==
    DRY_RUN =>
        /\ invoked = <<>>
        /\ running = {}
        /\ failed = FALSE
        /\ files = files0
        /\ reported = [i \in 1..Len(issued) |-> join(" ", issued[i])]
        /\ \A i \in 1..Len(out) : out[i].prefix # "$ "

\* C5 witness: a dry run has ended after reporting all seven commands.
C5_Witness ==
    /\ DRY_RUN
    /\ pc = "done"
    /\ programs = <<"axel", "qemu-img", "virt-resize", "virt-customize",
                    "virt-sparsify", "cp", "rm">>
    /\ Len(reported) = 7

\* C6: a dry run and a real run started from the same filesystem, with the
\* same OS tag, ordered selection and timestamp: the commands the dry run
\* reported are the commands the real run invoked.
C6_DryRunPreviewsRealRun ==
    ( /\ prev.run
      /\ prev.exit_code = 0
      /\ pc = "done"
      /\ prev.DRY_RUN # DRY_RUN
      /\ prev.os_tag = os_tag
      /\ prev.middle_scripts = middle_scripts
      /\ prev.timestamp = timestamp
      /\ prev.dirs0 = dirs0
      /\ prev.files0 = files0 )
    => IF DRY_RUN THEN reported = prev.invoked
                  ELSE prev.reported = invoked

\* C6 witness: a real run has ended after a dry run with the same inputs, and
\* has invoked the acquisition and a customize command with two selected stages.
C6_Witness ==
    /\ prev.run
    /\ prev.exit_code = 0
    /\ prev.DRY_RUN
    /\ ~DRY_RUN
    /\ pc = "done"
    /\ prev.os_tag = os_tag
    /\ prev.middle_scripts = middle_scripts
    /\ prev.timestamp = timestamp
    /\ prev.dirs0 = dirs0
    /\ prev.files0 = files0
    /\ middle_scripts = <<"users", "net">>
    /\ Len(invoked) = 7
    /\ Len(prev.reported) = 7

\* C7: a run aborts exactly when base or clean is no regular file of the
\* selected script directory; it then ends with a non-zero status and a
\* message naming a missing anchor, having created no directory and no file
\* and having reported and invoked no command.
C7_MissingAnchorAborts ==
    /\ pc \notin {"main", "tui_single_select", "validate"} =>
         (pc = "exited" <=> missing_anchors # {})
    /\ pc = "exited" =>
         /\ exit_code = 1
         /\ \E p \in missing_anchors : stderr = "Missing script: " \o p
         /\ script_path(os_tag, "base") \in missing_anchors =>
              stderr = "Missing script: " \o script_path(os_tag, "base")
         /\ dirs = dirs0
         /\ files = files0
         /\ issued = <<>>
         /\ out = <<>>
         /\ invoked = <<>>
         /\ running = {}

\* C7 witness: the run has aborted on a missing clean script, base being there.
C7_Witness ==
    /\ pc = "exited"
    /\ missing_anchors = {script_path(os_tag, "clean")}
    /\ stderr = "Missing script: " \o script_path(os_tag, "clean")
    /\ workdir_of(timestamp) \notin dirs
    /\ DOWNLOAD_DIR \notin dirs

\* C8: when the base image exists at the cache lookup no acquisition command
\* is issued in the run; when it does not, exactly one is issued, before every
\* other command.  Up to the lookup the base image exists iff it did at the start.
C8_AcquireOnlyWhenAbsent ==
    /\ pc \in {"validate", "makedirs", "download"} /\ os_tag # NoValue =>
         (exists(base_path(os_tag)) <=> base_path(os_tag) \in files0)
    /\ PastDownload =>
         IF base_path(os_tag) \in files0
         THEN \A i \in 1..Len(issued) : issued[i][1] # "axel"
         ELSE /\ issued[1] = acquire_cmd(os_tag)
              /\ \A i \in 2..Len(issued) : issued[i][1] # "axel"

\* C8 witness: a real run has ended that found no base image, acquired it
\* first, and left it in the download directory.
C8_Witness ==
    /\ pc = "done"
    /\ ~DRY_RUN
    /\ base_path(os_tag) \notin files0
    /\ base_path(os_tag) \in files
    /\ programs[1] = "axel"
    /\ Len(issued) = 7

\* C9 (as claimed): in either mode the workspace exists while the pipeline
\* commands are issued, the remove command follows the copy command, and the
\* workspace no longer exists when the run has finished.
C9_WorkspaceRemovedAtEnd ==
    /\ pc \in {"download", "create", "resize", "customize", "compress", "copy", "remove"} =>
         workdir_of(timestamp) \in dirs
    /\ pc = "done" =>
         /\ \E i, j \in 1..Len(issued) :
              i < j /\ issued[i][1] = "cp" /\ issued[j] = remove_cmd(timestamp)
         /\ workdir_of(timestamp) \notin dirs

\* C10: the commands are issued in the order acquire (only if the base image
\* was absent), create, resize, customize, compress, copy, remove, each of
\* the last six once, the one customize command carrying all stages; a real
\* run invokes what it issues, and at most one external process, that of the
\* command issued last, is in progress.
C10_FixedOrderOneAtATime ==
    LET order == (IF base_path(os_tag) \in files0 THEN <<>> ELSE <<"axel">>)
                 \o <<"qemu-img", "virt-resize", "virt-customize",
                      "virt-sparsify", "cp", "rm">>
    IN /\ os_tag # NoValue => IsPrefix(programs, order)
       /\ pc = "done" => programs = order
       /\ \A i \in customize_at : stage_args(issued[i]) = as_paths(scripts)
       /\ Cardinality(running) <= 1
       /\ running # {} => running = {issued[Len(issued)]}
       /\ ~DRY_RUN => invoked = [i \in 1..Len(issued) |-> join(" ", issued[i])]

\* C10 witness: in a real run the remove command, the seventh, is in progress.
C10_Witness ==
    /\ ~DRY_RUN
    /\ pc = "finish"
    /\ Len(issued) = 7
    /\ running = {remove_cmd(timestamp)}

\* C11: when the ordered selection is empty, because the user confirmed
\* without an option toggled on or because the multi-select was skipped for
\* want of optional scripts, the script list is exactly base, clean, and so
\* are the stages of the customize command.
C11_EmptySelectionGivesAnchorsOnly ==
    Assembled /\ on = {} =>
        /\ scripts = <<"base", "clean">>
        /\ Len(scripts) = 2
        /\ \A i \in customize_at :
             stage_args(issued[i]) =
                 <<script_path(os_tag, "base"), script_path(os_tag, "clean")>>

\* C11 witness: the user was offered two options, toggled net on and off
\* again, confirmed, and the customize command with two stages was issued.
C11_Witness ==
    /\ pc = "done"
    /\ all_scripts = <<"net", "users">>
    /\ on = {}
    /\ on_order = <<"net">>
    /\ \E i \in customize_at : Len(stage_args(issued[i])) = 2

\* the filename stem the final artifact is to have
stem(t, tags, ts) ==
    IF tags = <<>> THEN t \o "-" \o ts
    ELSE t \o "-" \o join("-", tags) \o "-" \o ts

\* C12: the final artifact is named osTag-timestamp when the ordered
\* selection is empty and osTag-tags-timestamp, the tags hyphen-joined in
\* selection order, otherwise: in the copy command, in the last line printed,
\* and on the two examples.
C12_ArtifactNameStem ==
    /\ \A i \in 1..Len(issued) :
         issued[i][1] = "cp" =>
             issued[i][3] = OUTPUT_DIR \o "/"
                            \o stem(os_tag, by_last_toggle_on, timestamp) \o ".img"
    /\ pc = "done" =>
         out[Len(out)].text = OUTPUT_DIR \o "/"
                              \o stem(os_tag, by_last_toggle_on, timestamp) \o ".img"
    /\ final_img("ubuntu-2204", <<>>, "20240101_000000")
           = "ubuntu-2204-20240101_000000" \o ".img"
    /\ final_img("debian-13", <<"net", "users">>, "20240101_000000")
           = "debian-13-net-users-20240101_000000" \o ".img"

\* C12 witness: a run on debian-13 with net, users selected in this order
\* has ended and printed the artifact debian-13-net-users-20240101_000000.img.
C12_Witness ==
    /\ pc = "done"
    /\ os_tag = "debian-13"
    /\ by_last_toggle_on = <<"net", "users">>
    /\ timestamp = "20240101_000000"
    /\ out[Len(out)].text = "/work/output/debian-13-net-users-20240101_000000.img"
    /\ \E i \in 1..Len(issued) :
         /\ issued[i][1] = "cp"
         /\ issued[i][3] = "/work/output/debian-13-net-users-20240101_000000.img"

\* C13: after any sequence of keys every element of chosen is one of the
\* presented options, none of which is base or clean, and no option occurs
\* in chosen twice.
C13_ChosenAreDistinctOptions ==
    /\ \A k \in 1..Len(all_scripts) : all_scripts[k] \notin {"base", "clean"}
    /\ \A i \in 1..Len(chosen) :
         /\ \E k \in 1..Len(all_scripts) : chosen[i] = all_scripts[k]
         /\ chosen[i] \notin {"base", "clean"}
    /\ \A i, j \in 1..Len(chosen) : i # j => chosen[i] # chosen[j]

\* C13 witness: in the loop all three options are chosen, in the order users,
\* net, ssh, the cursor on ssh.
C13_Witness ==
    /\ pc = "tui_ordered_multi_select"
    /\ chosen = <<"users", "net", "ssh">>
    /\ on_order = <<"users", "net", "ssh">>
    /\ current = 1

\* the cursor c2 a key is to leave, from cursor c on n options
clamped_step(c, c2, key, n) ==
    IF key = KEY_UP THEN c2 = (IF c = 0 THEN 0 ELSE c - 1)
    ELSE IF key = KEY_DOWN THEN c2 = (IF c = n - 1 THEN n - 1 ELSE c + 1)
    ELSE c2 = c

\* C14: in both selection loops the cursor stays within 0 .. len(options)-1;
\* Up at the first and Down at the last option leave it where it is, every
\* other Up or Down moves it by exactly one.
C14_CursorInRangeAndClamped ==
    /\ [](/\ pc = "tui_single_select" => selected \in 0..(Len(OsTags) - 1)
          /\ pc = "tui_ordered_multi_select" => current \in 0..(Len(all_scripts) - 1))
    /\ [][\A key \in Keys :
            /\ SingleSelectKey(key) =>
                 clamped_step(selected, selected', key, Len(OsTags))
            /\ MultiSelectKey(key) =>
                 clamped_step(current, current', key, Len(all_scripts))]_vars

\* C14 witness: in the ordered multi-select the cursor is on the last of the
\* three options, with something chosen on the way.
C14_Witness ==
    /\ pc = "tui_ordered_multi_select"
    /\ Len(all_scripts) = 3
    /\ current = 2
    /\ selected = 1
    /\ chosen = <<"ssh">>

\* C20: in the ordered multi-select a key does at most one thing: Up and
\* Down leave chosen as it is; space leaves the cursor and flips the
\* membership of the option under the cursor and of no other; Enter and any
\* other key change neither the cursor nor chosen.
C20_OneTransitionPerKey ==
    [][\A key \in Keys :
         MultiSelectKey(key) =>
            /\ key \in {KEY_UP, KEY_DOWN} => chosen' = chosen
            /\ key = KEY_SPACE =>
                 /\ current' = current
                 /\ In(all_scripts[current + 1], chosen')
                        = ~In(all_scripts[current + 1], chosen)
                 /\ \A k \in 1..Len(all_scripts) :
                        k # current + 1 =>
                            In(all_scripts[k], chosen') = In(all_scripts[k], chosen)
            /\ key \notin {KEY_UP, KEY_DOWN, KEY_SPACE} =>
                 current' = current /\ chosen' = chosen]_vars

\* C20 witness: in the loop net has been toggled on and off and users on,
\* the cursor resting on users.
C20_Witness ==
    /\ pc = "tui_ordered_multi_select"
    /\ on_order = <<"net", "users">>
    /\ on = {"users"}
    /\ chosen = <<"users">>
    /\ current = 2

\* C16: a failing external command is not observed.  A run in which a command
\* has failed is a real run that neither aborts nor gets a failure status;
\* and every real run that ends has invoked all commands in order, has
\* printed the same lines whether or not a command failed, the last being
\* the final artifact path, and ends with status 0.
C16_FailuresNotObserved ==
    /\ failed => (~DRY_RUN /\ pc # "exited" /\ exit_code \in {NotExited, 0})
    /\ (~DRY_RUN /\ pc = "done") =>
         LET cached == base_path(os_tag) \in files0
             order == (IF cached THEN <<>> ELSE <<"axel">>)
                      \o <<"qemu-img", "virt-resize", "virt-customize",
                           "virt-sparsify", "cp", "rm">>
         IN /\ programs = order
            /\ invoked = [i \in 1..Len(issued) |-> join(" ", issued[i])]
            /\ out = (IF cached
                      THEN <<line("Using existing image: ", base_path(os_tag))>>
                      ELSE <<>>)
                     \o [i \in 1..Len(issued) |-> line("$ ", join(" ", issued[i]))]
                     \o <<line("\nFinal image ready at: ",
                               final_dest(os_tag, middle_scripts, timestamp))>>
            /\ exit_code = 0

\* C16 witness: a real run has ended with status 0 after all seven commands,
\* although the acquisition failed (no base image) and the removal failed
\* (the workspace is still there).
C16_Witness ==
    /\ ~DRY_RUN
    /\ pc = "done"
    /\ failed
    /\ exit_code = 0
    /\ Len(invoked) = 7
    /\ base_path(os_tag) \notin files
    /\ workdir_of(timestamp) \in dirs

\* C17: under the fairness assumptions every run ends, and a run whose anchor
\* scripts both exist ends by printing the final artifact path, with status
\* 0; a selection loop is left on Enter and on no other key.
C17_TerminatesOnAcceptOnly ==
    /\ <>(pc \in {"done", "exited"})
    /\ (pc = "validate" /\ missing_anchors = {})
           ~> (/\ pc = "done"
               /\ exit_code = 0
               /\ out[Len(out)] = line("\nFinal image ready at: ",
                                       final_dest(os_tag, middle_scripts, timestamp)))
    /\ [][/\ \A key \in Keys \ {KEY_LF, KEY_CR} :
               /\ SingleSelectKey(key) => pc' = "tui_single_select"
               /\ MultiSelectKey(key) => pc' = "tui_ordered_multi_select"
          /\ (pc = "tui_single_select" /\ pc' # pc) =>
               \E key \in {KEY_LF, KEY_CR} : SingleSelectKey(key)
          /\ (pc = "tui_ordered_multi_select" /\ pc' # pc) =>
               \E key \in {KEY_LF, KEY_CR} : MultiSelectKey(key)]_vars

\* C17 witness: a real run that went through both selection loops, with an
\* option chosen, has ended after its seven commands.
C17_Witness ==
    /\ pc = "done"
    /\ ~DRY_RUN
    /\ running = {}
    /\ exit_code = 0
    /\ all_scripts = <<"net", "users">>
    /\ middle_scripts = <<"users">>
    /\ Len(invoked) = 7
    /\ out[Len(out)].prefix = "\nFinal image ready at: "

\* the command lines of a run on OS tag t with the selection tags, as they
\* read at timestamp ts, with or without the acquisition
command_lines(t, tags, ts, acquire) ==
    LET argvs == (IF acquire THEN <<acquire_cmd(t)>> ELSE <<>>)
                 \o <<create_cmd(ts), resize_cmd(t, ts),
                      customize_cmd(t, ts, <<"base">> \o tags \o <<"clean">>),
                      compress_cmd(ts), copy_cmd(t, tags, ts), remove_cmd(ts)>>
    IN [i \in 1..Len(argvs) |-> join(" ", argvs[i])]

\* C15: two successive dry runs with the same OS tag and the same ordered
\* selection report the same command lines but for the timestamp: both
\* report the lines of one sequence of commands, each at its own timestamp,
\* and report equal lines when the timestamps are equal.
C15_DryRunsAgree ==
    ( /\ prev.run
      /\ prev.exit_code = 0
      /\ prev.DRY_RUN
      /\ DRY_RUN
      /\ pc = "done"
      /\ prev.os_tag = os_tag
      /\ prev.middle_scripts = middle_scripts )
    => /\ \E acquire \in BOOLEAN :
            /\ prev.reported =
                   command_lines(os_tag, middle_scripts, prev.timestamp, acquire)
            /\ reported = command_lines(os_tag, middle_scripts, timestamp, acquire)
       /\ prev.timestamp = timestamp => prev.reported = reported

\* C15 witness: a dry run has ended on the filesystem left by an earlier dry
\* run with the same OS tag and selection and another timestamp, both with
\* the acquisition among the seven commands reported.
C15_Witness ==
    /\ prev.run
    /\ prev.exit_code = 0
    /\ prev.DRY_RUN
    /\ DRY_RUN
    /\ pc = "done"
    /\ prev.os_tag = os_tag
    /\ prev.middle_scripts = middle_scripts
    /\ middle_scripts = <<"users", "net">>
    /\ prev.timestamp # timestamp
    /\ prev.dirs0 = {}
    /\ dirs0 = {DOWNLOAD_DIR, OUTPUT_DIR, WORKDIR_BASE, workdir_of(prev.timestamp)}
    /\ Len(reported) = 7
    /\ Len(prev.reported) = 7
    /\ reported # prev.reported

\* C18 (as claimed): two distinct runs use distinct workspace directories.
C18_DistinctWorkspaces ==
    ( /\ prev.run
      /\ prev.exit_code = 0
      /\ pc \in {"download", "create", "resize", "customize", "compress",
                 "copy", "remove", "finish", "done"} )
    => workdir_of(prev.timestamp) # workdir_of(timestamp)

\* main() holds its workspace: created (build.py:121) and not yet handed to
\* rm -rf (build.py:149)
HoldsWorkspace ==
    pc \in {"download", "create", "resize", "customize", "compress", "copy",
            "remove"}

\* C19 (as claimed): in every run the workspace directory name equals the
\* final artifact's filename stem.
C19_WorkspaceNamedByStem ==
    HoldsWorkspace =>
        /\ path_join(WORKDIR_BASE, stem(os_tag, middle_scripts, timestamp)) \in dirs
        /\ workdir_of(timestamp)
               = path_join(WORKDIR_BASE, stem(os_tag, middle_scripts, timestamp))

\* C19 (amended): the workspace directory is named by the run timestamp
\* alone, the final artifact by osTag[-tags]-timestamp: the directory
\* <base>/<timestamp> exists while the run holds its workspace, no directory
\* named by the stem is ever made, the images are made and removed under
\* <base>/<timestamp>, the copy is to <output>/<stem>.img, and the two names
\* share the timestamp but are never equal.
C19_WorkspaceKeyedByTimestamp ==
    /\ HoldsWorkspace => (WORKDIR_BASE \o "/" \o timestamp) \in dirs
    /\ \A d \in dirs \ dirs0 :
         d \in {DOWNLOAD_DIR, OUTPUT_DIR, WORKDIR_BASE, WORKDIR_BASE \o "/" \o timestamp}
    /\ \A i \in 1..Len(issued) :
         /\ issued[i][1] = "qemu-img" =>
                issued[i][5] = WORKDIR_BASE \o "/" \o timestamp \o "/" \o timestamp \o ".img"
         /\ issued[i][1] = "rm" => issued[i][3] = WORKDIR_BASE \o "/" \o timestamp
         /\ issued[i][1] = "cp" =>
                /\ issued[i][2] = WORKDIR_BASE \o "/" \o timestamp \o "/" \o timestamp
                                  \o "-compressed.img"
                /\ issued[i][3] = OUTPUT_DIR \o "/"
                                  \o stem(os_tag, middle_scripts, timestamp) \o ".img"
    /\ Assembled => stem(os_tag, middle_scripts, timestamp) # timestamp

\* C19 witness: a run on debian-13 with users, net selected, started with no
\* directories, has copied /dev/shm/build/20240101_000001/..-compressed.img to
\* the artifact debian-13-users-net-20240101_000001.img while its workspace
\* /dev/shm/build/20240101_000001 exists.
C19_Witness ==
    /\ pc = "remove"
    /\ dirs0 = {}
    /\ os_tag = "debian-13"
    /\ middle_scripts = <<"users", "net">>
    /\ timestamp = "20240101_000001"
    /\ "/dev/shm/build/20240101_000001" \in dirs
    /\ issued[Len(issued)]
         = <<"cp", "/dev/shm/build/20240101_000001/20240101_000001-compressed.img",
             "/work/output/debian-13-users-net-20240101_000001.img">>

====
